---- MODULE Spec2Model ----
(***************************************************************************)
(* Model of the capture engine of src/src/capture.c: the supervisor        *)
(* capture_loop with its (re)initialization loop, the per-session          *)
(* mainloop (select, buffer exchange, frame policy, event handling), the   *)
(* stream controller _capture_control and the worker pool lifecycle.       *)
(*                                                                         *)
(* The supervisor thread is a program counter pc over the places where it  *)
(* interacts with the kernel, the device collaborator, the worker threads  *)
(* or the stop flag.  Every worker thread is one entry of threads.  The    *)
(* stop flag is written by the environment only (action Stop).             *)
(***************************************************************************)
EXTENDS Integers, Sequences, FiniteSets, TLC

\* ------------------------------------------------------------------ bounds
\* Largest buffer count device_open negotiates in the model.
MaxBuffers == 2
\* Largest number of frames the driver delivers within one session when the
\* frame sizes are free.
MaxFrames == 4
\* Largest number of _capture_control calls in the stream-controller harness.
MaxCtlCalls == 4

\* ------------------------------------------------------- 32-bit arithmetic
\* `unsigned` values are records of two 16-bit halves, because TLC's
\* integers are 32-bit signed and cannot hold UINT_MAX.
Half == 2 ^ 16

U32(n) == [hi |-> n \div Half, lo |-> n % Half]

UIntMax == [hi |-> Half - 1, lo |-> Half - 1]

\* if (dev->every_frame): the truth value of an unsigned.
NonZero(u) == u.hi # 0 \/ u.lo # 0

\* (int)u with the usual modulo-2^32 conversion of an out-of-range unsigned.
ToInt(u) ==
    IF u.hi < Half \div 2 THEN u.hi * Half + u.lo
                          ELSE (u.hi - Half) * Half + u.lo

\* ------------------------------------------------------------ input domains
\* Values of dev->every_frame (skip factor) the model draws from.
SkipFactors == {U32(0), U32(1), U32(2), U32(3), UIntMax}
\* Values of dev->min_frame_size the model draws from.
MinFrameSizes == {8000, 9000}
\* Values of buf.bytesused the driver reports in the model.
FrameSizes == {500, 9000}
\* Types of a dequeued v4l2 event.
EventTypes == {"SOURCE_CHANGE", "EOS", "OTHER"}

\* The frame sizes of the scenario: skip = 3, min_frame_size = 8000.
Scenario == << 9000, 9000, 500, 9000, 9000, 9000 >>

NoBuf == [index |-> -1, bytesused |-> 0]
NoReady == [r |-> FALSE, w |-> FALSE, e |-> FALSE]
NoCall == [enable |-> FALSE, was |-> FALSE, ioctl |-> FALSE, ret |-> 0, made |-> FALSE]

VARIABLES
    stop,            \* *stop: the process-wide stop latch
    pc,              \* position of the supervisor thread
    retval,          \* retval of _capture_init_loop
    every_frame,     \* dev->every_frame
    min_frame_size,  \* dev->min_frame_size
    opened,          \* the device descriptor is open (dev->run->fd valid)
    n_buffers,       \* dev->run->n_buffers
    capturing,       \* dev->run->capturing
    streaming,       \* the hardware stream state behind the descriptor
    pool_workers,    \* pool->workers != NULL
    threads,         \* per index: "none", "running" or "exited" (not yet joined)
    idx,             \* loop index of the spawn loop and of the join loop
    frames_count,    \* frames_count of capture_loop
    ready,           \* read_fds / write_fds / error_fds after select
    buf,             \* the v4l2_buffer grabbed in this iteration
    \* ---- observation (history) variables, not program state ----
    sizes,           \* bytesused of the frames grabbed in this session, in order
    fate,            \* per grabbed frame: "skip", "small" or "fwd" (jpeg_compress_buffer)
    released,        \* _capture_release_buffer calls made in this session
    held,            \* index of the buffer grabbed and not yet given back, or -1
    reinit,          \* a source-changed event was dequeued, no new session yet
    lastFault,       \* "" or the break by which the mainloop was just left
    ctlPrev,         \* the _capture_control call before the last one
    ctlLast,         \* the last _capture_control call
    ctlCalls,        \* _capture_control calls made (stream-controller harness)
    closedTwice,     \* device_close was invoked on a closed or never-opened device
    closes,          \* device_close calls that found the current descriptor open
    failStop,        \* stop was already asserted when _capture_init last failed
    lateSleep,       \* a retry sleep was begun after such a failure
    faulted,         \* a session or an attempt failed; no retry sleep or open since
    selret,          \* how the last select() of this session came back, or "none"
    event,           \* what _capture_handle_event met in this iteration, or "none"
    script           \* << >>, or the frame sizes the driver delivers in a session

vars == << stop, pc, retval, every_frame, min_frame_size, opened, n_buffers,
           capturing, streaming, pool_workers, threads, idx, frames_count,
           ready, buf, sizes, fate, released, held, reinit,
           lastFault, ctlPrev, ctlLast, ctlCalls, closedTwice, closes, failStop,
           lateSleep, faulted, selret, event, script >>

cfgVars == << every_frame, min_frame_size, script >>
devVars == << opened, n_buffers, streaming, closedTwice, closes >>
ctlVars == << capturing, ctlPrev, ctlLast, ctlCalls >>
poolVars == << pool_workers, threads, idx >>
frameVars == << frames_count, ready, buf >>
histVars == << sizes, fate, released, held >>
waitVars == << failStop, lateSleep >>

Indices == 0 .. (MaxBuffers - 1)

\* ------------------------------------------------------------ collaborators
\* device_close(dev): releases the session if there is one; on a closed or
\* never-opened device it does nothing.  Closing the descriptor ends the
\* hardware stream and forgets the negotiated buffers.
device_close ==
    /\ opened' = FALSE
    /\ n_buffers' = 0
    /\ streaming' = FALSE
    /\ closedTwice' = (closedTwice \/ ~opened)
    /\ closes' = IF opened THEN closes + 1 ELSE closes

\* device_open(dev): on success a fresh session with n negotiated buffers; on
\* failure the device is left closed.
device_open(ok, n) ==
    /\ opened' = ok
    /\ n_buffers' = IF ok THEN n ELSE 0
    /\ streaming' = FALSE
    /\ closes' = IF ok THEN 0 ELSE closes
    /\ UNCHANGED closedTwice

\* ------------------------------------------------------- _capture_control
\* Line 230: the ioctl is issued only when the request differs from the flag.
ControlIoctl(enable) == enable # capturing

\* Lines 234-238: only a failed start is reported.
ControlRet(enable, ok) ==
    IF ControlIoctl(enable) /\ ~ok /\ enable THEN -1 ELSE 0

\* Mutant of ControlCapturing: the flag is not updated after a successful ioctl.
ControlCapturing_stale(enable, ok) == capturing

\* Line 241: reached unless the call returned at line 237.
ControlCapturing(enable, ok) ==
    IF ControlIoctl(enable) /\ ControlRet(enable, ok) = 0 THEN enable ELSE capturing

\* _capture_control(dev, enable); ok is the outcome of the ioctl, if issued.
capture_control(enable, ok) ==
    /\ capturing' = ControlCapturing(enable, ok)
    /\ streaming' = IF ControlIoctl(enable) /\ ok THEN enable ELSE streaming
    /\ ctlPrev' = ctlLast
    /\ ctlLast' = [enable |-> enable, was |-> capturing,
                   ioctl |-> ControlIoctl(enable),
                   ret |-> ControlRet(enable, ok), made |-> TRUE]

\* ------------------------------------------------- buffer exchange, events
\* Mutant of GrabRet: the returned index is not checked against n_buffers.
GrabRet_anyIndex(ok, index) == IF ~ok THEN -1 ELSE 0

\* _capture_grab_buffer: ok is the outcome of VIDIOC_DQBUF, index what the
\* driver returned.
GrabRet(ok, index) ==
    IF ~ok THEN -1
    ELSE IF index >= n_buffers THEN -1
    ELSE 0

\* _capture_release_buffer: ok is the outcome of VIDIOC_QBUF.
ReleaseRet(ok) == IF ok THEN 0 ELSE -1

\* Mutant of HandleEventRet: an end-of-stream event asks for a
\* reinitialization as well.
HandleEventRet_eosReinits(dq, type) ==
    IF dq /\ type \in {"SOURCE_CHANGE", "EOS"} THEN -1 ELSE 0

\* _capture_handle_event: dq is whether VIDIOC_DQEVENT succeeded.
HandleEventRet(dq, type) ==
    IF dq THEN (CASE type = "SOURCE_CHANGE" -> -1
                  [] type = "EOS" -> 0
                  [] OTHER -> 0)
    ELSE 0

\* --------------------------------------------------------- frame policy
\* Lines 80-81: the frame is skipped by --every-frame.
SkipsFrame(fc) == NonZero(every_frame) /\ fc < ToInt(every_frame) - 1

\* Mutant of TooSmall: a frame of exactly the minimum size is dropped too.
TooSmall_orEqual(bytesused) == bytesused <= min_frame_size

\* Line 95: the frame is dropped as broken.
TooSmall(bytesused) == bytesused < min_frame_size

\* Mutant of Policy: the size filter runs before the skip decision, so a small
\* frame is dropped without being counted.
Policy_sizeFirst(fc, bytesused) ==
    IF bytesused < min_frame_size
    THEN [fate |-> "small", count |-> fc]
    ELSE IF SkipsFrame(fc)
         THEN [fate |-> "skip", count |-> fc + 1]
         ELSE [fate |-> "fwd", count |-> IF NonZero(every_frame) THEN 0 ELSE fc]

\* Lines 80-101: what happens to a grabbed frame and to frames_count.  The skip
\* decision comes first and resets the counter when it keeps the frame; the
\* size filter sees only the frames the skip decision kept.
Policy(fc, bytesused) ==
    IF SkipsFrame(fc)
    THEN [fate |-> "skip", count |-> fc + 1]
    ELSE LET c == IF NonZero(every_frame) THEN 0 ELSE fc
         IN  IF TooSmall(bytesused)
             THEN [fate |-> "small", count |-> c]
             ELSE [fate |-> "fwd", count |-> c]

\* --------------------------------------------------------------- control flow
\* Line 33: what capture_loop does with the result of _capture_init_loop.
AfterInitLoop(rv) == IF rv = 0 THEN "main_check" ELSE "final_destroy"

\* Mutant of BreakTarget: a break leaves the outer loop as well.
BreakTarget_leaves == "final_destroy"

\* A break out of the mainloop (lines 63, 68, 77, 107, 113, 119): the outer
\* loop calls _capture_init_loop again, which sets retval = -1 (line 132).
BreakTarget == "init_loop"

Break(cause) ==
    /\ pc' = BreakTarget
    /\ retval' = -1
    /\ lastFault' = cause
    /\ faulted' = TRUE

\* ------------------------------------------------------------------- Init
\* No pool, no frame in flight, nothing observed yet.
InitQuiet ==
    /\ pool_workers = FALSE
    /\ threads = [i \in Indices |-> "none"]
    /\ idx = 0
    /\ frames_count = 0
    /\ ready = NoReady
    /\ buf = NoBuf
    /\ sizes = << >>
    /\ fate = << >>
    /\ released = 0
    /\ held = -1
    /\ reinit = FALSE
    /\ lastFault = ""
    /\ ctlPrev = NoCall
    /\ ctlLast = NoCall
    /\ ctlCalls = 0
    /\ closedTwice = FALSE
    /\ closes = 0
    /\ failStop = FALSE
    /\ lateSleep = FALSE
    /\ faulted = FALSE
    /\ selret = "none"
    /\ event = "none"

\* The state at the call of capture_loop, but for the configuration: line 28
\* zeroes the pool, the device is closed and not capturing.
InitRun ==
    /\ stop = FALSE
    /\ pc = "init_loop"
    /\ retval = -1
    /\ opened = FALSE
    /\ n_buffers = 0
    /\ capturing = FALSE
    /\ streaming = FALSE
    /\ InitQuiet

\* Any configuration of the input domains; the driver is free in the frame
\* sizes it reports.
Init ==
    /\ InitRun
    /\ every_frame \in SkipFactors
    /\ min_frame_size \in MinFrameSizes
    /\ script = << >>

\* The configuration of the scenario; the driver delivers its frames in order.
InitScenario ==
    /\ InitRun
    /\ every_frame = U32(3)
    /\ min_frame_size = 8000
    /\ script = Scenario

\* How many frames the driver delivers in one session.
FrameLimit == IF script = << >> THEN MaxFrames ELSE Len(script)

\* The sizes the driver may report for the k-th frame of a session.
SizesOfFrame(k) == IF script = << >> THEN FrameSizes ELSE {script[k]}

\* ------------------------------------------------------------ environment
\* The signal handler asserts the stop latch; nothing ever clears it.
Stop ==
    /\ ~stop
    /\ pc # "done"
    /\ stop' = TRUE
    /\ UNCHANGED << pc, retval, cfgVars, devVars, ctlVars, poolVars, frameVars,
                    histVars, reinit, lastFault, waitVars, faulted, selret, event >>

\* _capture_worker_thread, lines 206-209: the thread spins until it observes
\* stop, then returns.
WorkerThread(i) ==
    /\ threads[i] = "running"
    /\ stop
    /\ threads' = [threads EXCEPT ![i] = "exited"]
    /\ UNCHANGED << stop, pc, retval, cfgVars, devVars, ctlVars, pool_workers,
                    idx, frameVars, histVars, reinit, lastFault, waitVars,
                    faulted, selret, event >>

\* --------------------------------------------------- worker pool lifecycle
\* Mutant of capture_destroy_workers: the pool is freed without joining its
\* threads.
capture_destroy_workers_noJoin(next) ==
    /\ pool_workers' = FALSE
    /\ idx' = 0
    /\ pc' = next
    /\ UNCHANGED threads

\* _capture_destroy_workers, lines 212-227, one step per pthread_join.  The
\* join of thread idx returns only once that thread has returned.
capture_destroy_workers(next) ==
    IF pool_workers /\ idx < n_buffers
    THEN /\ threads[idx] = "exited"
         /\ threads' = [threads EXCEPT ![idx] = "none"]
         /\ idx' = idx + 1
         /\ UNCHANGED << pc, pool_workers >>
    ELSE /\ pool_workers' = FALSE
         /\ idx' = 0
         /\ pc' = next
         /\ UNCHANGED threads

\* _capture_init_workers, lines 172-176: the allocation of the pool.
InitWorkersAlloc(ok) ==
    /\ pool_workers' = ok
    /\ idx' = 0
    /\ pc' = IF ok THEN "spawn" ELSE "init_error"
    /\ UNCHANGED threads

\* ------------------------------------------------------ _capture_init_loop
\* Line 134: the stop check of _capture_init_loop; line 142 on exit.
InitLoopCheck ==
    /\ pc = "init_loop"
    /\ pc' = IF stop THEN AfterInitLoop(retval) ELSE "init_destroy"
    /\ sizes' = << >>
    /\ fate' = << >>
    /\ released' = 0
    /\ held' = -1
    /\ ready' = NoReady
    /\ lastFault' = ""
    /\ selret' = "none"
    /\ event' = "none"
    /\ UNCHANGED << stop, retval, cfgVars, devVars, ctlVars, poolVars, frames_count,
                    buf, reinit, waitVars, faulted >>

\* Line 148: _capture_init tears the previous pool down.
InitDestroyWorkers ==
    /\ pc = "init_destroy"
    /\ capture_destroy_workers("init_control")
    /\ UNCHANGED << stop, retval, cfgVars, devVars, ctlVars, frameVars, histVars,
                    reinit, lastFault, waitVars, faulted, selret, event >>

\* Line 149: _capture_control(dev, false).
InitControlOff ==
    /\ pc = "init_control"
    /\ \E ok \in BOOLEAN : capture_control(FALSE, ok)
    /\ pc' = "init_close"
    /\ UNCHANGED << stop, retval, cfgVars, opened, n_buffers, closedTwice, closes,
                    ctlCalls, poolVars, frameVars, histVars, reinit, lastFault,
                    waitVars, faulted, selret, event >>

\* Line 150: device_close(dev).
InitClose ==
    /\ pc = "init_close"
    /\ device_close
    /\ pc' = "init_open"
    /\ UNCHANGED << stop, retval, cfgVars, ctlVars, poolVars, frameVars, histVars,
                    reinit, lastFault, waitVars, faulted, selret, event >>

\* Lines 152-154: device_open(dev).
InitOpen ==
    /\ pc = "init_open"
    /\ \E ok \in BOOLEAN, n \in 1 .. MaxBuffers :
          /\ device_open(ok, n)
          /\ pc' = IF ok THEN "init_start" ELSE "init_error"
    /\ faulted' = FALSE
    /\ UNCHANGED << stop, retval, cfgVars, ctlVars, poolVars, frameVars, histVars,
                    reinit, lastFault, waitVars, selret, event >>

\* Lines 155-157: _capture_control(dev, true).
InitControlOn ==
    /\ pc = "init_start"
    /\ \E ok \in BOOLEAN :
          /\ capture_control(TRUE, ok)
          /\ pc' = IF ControlRet(TRUE, ok) < 0 THEN "init_error" ELSE "init_workers"
    /\ UNCHANGED << stop, retval, cfgVars, opened, n_buffers, closedTwice, closes,
                    ctlCalls, poolVars, frameVars, histVars, reinit, lastFault,
                    waitVars, faulted, selret, event >>

\* Lines 158, 172-176: _capture_init_workers allocates the pool.
InitWorkers ==
    /\ pc = "init_workers"
    /\ \E ok \in BOOLEAN : InitWorkersAlloc(ok)
    /\ UNCHANGED << stop, retval, cfgVars, devVars, ctlVars, frameVars, histVars,
                    reinit, lastFault, waitVars, faulted, selret, event >>

\* Lines 181-196: one turn of the spawn loop.  A failed pthread_create (or
\* mutex/cond init) trips the assert and aborts the process.
SpawnWorker ==
    /\ pc = "spawn"
    /\ idx < n_buffers
    /\ \E ok \in BOOLEAN :
          IF ok THEN /\ threads' = [threads EXCEPT ![idx] = "running"]
                     /\ idx' = idx + 1
                     /\ pc' = pc
                ELSE /\ pc' = "aborted"
                     /\ UNCHANGED << threads, idx >>
    /\ UNCHANGED << stop, retval, cfgVars, devVars, ctlVars, pool_workers,
                    frameVars, histVars, reinit, lastFault, waitVars,
                    faulted, selret, event >>

\* Mutant of InitDone: the spawn loop stops one thread short of n_buffers.
InitDone_early ==
    /\ pc = "spawn"
    /\ idx >= n_buffers - 1
    /\ idx' = 0
    /\ retval' = 0
    /\ frames_count' = 0
    /\ reinit' = FALSE
    /\ pc' = AfterInitLoop(0)
    /\ UNCHANGED << stop, cfgVars, devVars, ctlVars, pool_workers, threads, ready,
                    buf, histVars, lastFault, waitVars, faulted, selret, event >>

\* Lines 198-199, 162, 139-142, 33-34: all workers spawned; _capture_init and
\* _capture_init_loop return 0 and capture_loop starts the session's mainloop.
InitDone ==
    /\ pc = "spawn"
    /\ idx >= n_buffers
    /\ idx' = 0
    /\ retval' = 0
    /\ frames_count' = 0
    /\ reinit' = FALSE
    /\ pc' = AfterInitLoop(0)
    /\ UNCHANGED << stop, cfgVars, devVars, ctlVars, pool_workers, threads, ready,
                    buf, histVars, lastFault, waitVars, faulted, selret, event >>

\* Lines 164-166, 135: the error exit of _capture_init closes the device and
\* returns -1.
InitError ==
    /\ pc = "init_error"
    /\ device_close
    /\ retval' = -1
    /\ pc' = "sleep_call"
    /\ failStop' = stop
    /\ faulted' = TRUE
    /\ UNCHANGED << stop, cfgVars, ctlVars, poolVars, frameVars, histVars, reinit,
                    lastFault, lateSleep, selret, event >>

\* Line 137: sleep(dev->error_timeout) begins.
SleepBegin ==
    /\ pc = "sleep_call"
    /\ pc' = "sleeping"
    /\ lateSleep' = (lateSleep \/ failStop)
    /\ UNCHANGED << stop, retval, cfgVars, devVars, ctlVars, poolVars, frameVars,
                    histVars, reinit, lastFault, failStop, faulted, selret, event >>

\* Line 137: the sleep ends; back to the loop condition of line 134.
SleepEnd ==
    /\ pc = "sleeping"
    /\ pc' = "init_loop"
    /\ faulted' = FALSE
    /\ UNCHANGED << stop, retval, cfgVars, devVars, ctlVars, poolVars, frameVars,
                    histVars, reinit, lastFault, waitVars, selret, event >>

\* ----------------------------------------------------------------- mainloop
\* Line 36: the stop check of the mainloop.  On stop the outer loop calls
\* _capture_init_loop again (line 33), which starts with retval = -1.
\* Otherwise lines 39-54 set up the descriptor sets for the next select.
MainCheck ==
    /\ pc = "main_check"
    /\ selret' = "none"
    /\ event' = "none"
    /\ IF stop THEN /\ pc' = "init_loop"
                    /\ retval' = -1
                    /\ UNCHANGED ready
               ELSE /\ pc' = "select"
                    /\ ready' = NoReady
                    /\ UNCHANGED retval
    /\ UNCHANGED << stop, cfgVars, devVars, ctlVars, poolVars, frames_count, buf,
                    histVars, reinit, lastFault, waitVars, faulted >>

\* Mutant of SelectError: an interrupted select breaks out of the mainloop like
\* any other select error.
SelectError_eintrBreaks ==
    /\ pc = "select"
    /\ \E eintr \in BOOLEAN :
          /\ Break("select")
          /\ selret' = IF eintr THEN "EINTR" ELSE "error"
    /\ UNCHANGED << stop, cfgVars, devVars, ctlVars, poolVars, frameVars,
                    histVars, reinit, waitVars, event >>

\* Lines 60-64: select() < 0.  EINTR goes round the loop, anything else breaks.
SelectError ==
    /\ pc = "select"
    /\ \E eintr \in BOOLEAN :
          IF eintr THEN /\ pc' = "main_check"
                        /\ selret' = "EINTR"
                        /\ UNCHANGED << retval, lastFault, faulted >>
                   ELSE /\ Break("select")
                        /\ selret' = "error"
    /\ UNCHANGED << stop, cfgVars, devVars, ctlVars, poolVars, frameVars,
                    histVars, reinit, waitVars, event >>

\* Lines 66-68: select() == 0, the timeout.
SelectTimeout ==
    /\ pc = "select"
    /\ Break("timeout")
    /\ selret' = "timeout"
    /\ UNCHANGED << stop, cfgVars, devVars, ctlVars, poolVars, frameVars,
                    histVars, reinit, waitVars, event >>

\* Line 71: where the dispatch of lines 70-122 goes first.
Dispatch(r) == IF r THEN "grab" ELSE "write_check"

\* Lines 70-71: select() > 0 with the descriptor in at least one of the sets.
SelectReady ==
    /\ pc = "select"
    /\ \E r, w, e \in BOOLEAN :
          /\ r \/ w \/ e
          /\ r => Len(sizes) < FrameLimit
          /\ ready' = [r |-> r, w |-> w, e |-> e]
          /\ pc' = Dispatch(r)
    /\ selret' = "ready"
    /\ UNCHANGED << stop, retval, cfgVars, devVars, ctlVars, poolVars, frames_count,
                    buf, histVars, reinit, lastFault, waitVars, faulted, event >>

\* Lines 76-78: _capture_grab_buffer.
GrabBuffer ==
    /\ pc = "grab"
    /\ \E ok \in BOOLEAN, index \in 0 .. MaxBuffers,
          bytesused \in SizesOfFrame(Len(sizes) + 1) :
          IF GrabRet(ok, index) < 0
          THEN /\ Break("grab")
               /\ UNCHANGED << buf, sizes, held >>
          ELSE /\ buf' = [index |-> index, bytesused |-> bytesused]
               /\ sizes' = Append(sizes, bytesused)
               /\ held' = index
               /\ pc' = "policy"
               /\ UNCHANGED << retval, lastFault, faulted >>
    /\ UNCHANGED << stop, cfgVars, devVars, ctlVars, poolVars, frames_count, ready,
                    fate, released, reinit, waitVars, selret, event >>

\* Mutant of PassFrame: a skipped frame jumps past the release.
PassFrame_skipLeaks(skipped, small) == IF skipped THEN "write_check" ELSE "release"

\* Where the frame goes after the policy of lines 80-101 (label pass_frame).
PassFrame(skipped, small) == "release"

\* Lines 80-101: the skip policy, the size filter and jpeg_compress_buffer.
FramePolicy ==
    /\ pc = "policy"
    /\ frames_count' = Policy(frames_count, buf.bytesused).count
    /\ fate' = Append(fate, Policy(frames_count, buf.bytesused).fate)
    /\ pc' = PassFrame(SkipsFrame(frames_count), TooSmall(buf.bytesused))
    /\ UNCHANGED << stop, retval, cfgVars, devVars, ctlVars, poolVars, ready, buf,
                    sizes, released, held, reinit, lastFault, waitVars,
                    faulted, selret, event >>

\* Lines 104-109: _capture_release_buffer is called with &buf; then the block
\* that declares buf (line 74) is left.
ReleaseBuffer ==
    /\ pc = "release"
    /\ released' = released + 1
    /\ held' = IF held = buf.index THEN -1 ELSE held
    /\ buf' = NoBuf
    /\ \E ok \in BOOLEAN :
          IF ReleaseRet(ok) < 0
          THEN Break("release")
          ELSE /\ pc' = "write_check"
               /\ UNCHANGED << retval, lastFault, faulted >>
    /\ UNCHANGED << stop, cfgVars, devVars, ctlVars, poolVars, frames_count, ready,
                    sizes, fate, reinit, waitVars, selret, event >>

\* Mutant of WriteBreaks: write-readiness is looked at only when no frame was
\* read in the iteration.
WriteBreaks_unlessRead(r, w) == w /\ ~r

\* Line 111: the write-readiness test.
WriteBreaks(r, w) == w

\* Lines 111-114.
WriteCheck ==
    /\ pc = "write_check"
    /\ IF WriteBreaks(ready.r, ready.w)
       THEN Break("write")
       ELSE /\ pc' = "event_check"
            /\ UNCHANGED << retval, lastFault, faulted >>
    /\ UNCHANGED << stop, cfgVars, devVars, ctlVars, poolVars, frameVars,
                    histVars, reinit, waitVars, selret, event >>

\* Lines 116-121: _capture_handle_event on error-readiness.
EventCheck ==
    /\ pc = "event_check"
    /\ IF ready.e
       THEN \E dq \in BOOLEAN, type \in EventTypes :
               /\ event' = IF dq THEN type ELSE "undequeued"
               /\ IF HandleEventRet(dq, type) < 0
                  THEN /\ Break("event")
                       /\ reinit' = TRUE
                  ELSE /\ pc' = "main_check"
                       /\ UNCHANGED << retval, lastFault, faulted, reinit >>
       ELSE /\ pc' = "main_check"
            /\ UNCHANGED << retval, lastFault, faulted, reinit, event >>
    /\ UNCHANGED << stop, cfgVars, devVars, ctlVars, poolVars, frameVars,
                    histVars, waitVars, selret >>

\* ------------------------------------------------------------ final teardown
\* Line 126.
FinalDestroyWorkers ==
    /\ pc = "final_destroy"
    /\ capture_destroy_workers("final_control")
    /\ UNCHANGED << stop, retval, cfgVars, devVars, ctlVars, frameVars, histVars,
                    reinit, lastFault, waitVars, faulted, selret, event >>

\* Line 127.
FinalControlOff ==
    /\ pc = "final_control"
    /\ \E ok \in BOOLEAN : capture_control(FALSE, ok)
    /\ pc' = "final_close"
    /\ UNCHANGED << stop, retval, cfgVars, opened, n_buffers, closedTwice, closes,
                    ctlCalls, poolVars, frameVars, histVars, reinit, lastFault,
                    waitVars, faulted, selret, event >>

\* Mutant of FinalClose: capture_loop returns without the device_close of
\* line 128.
FinalClose_forgets ==
    /\ pc = "final_close"
    /\ pc' = "done"
    /\ UNCHANGED << stop, retval, cfgVars, devVars, ctlVars, poolVars, frameVars,
                    histVars, reinit, lastFault, waitVars, faulted, selret, event >>

\* Lines 128-129: device_close(dev), then capture_loop returns.
FinalClose ==
    /\ pc = "final_close"
    /\ device_close
    /\ pc' = "done"
    /\ UNCHANGED << stop, retval, cfgVars, ctlVars, poolVars, frameVars, histVars,
                    reinit, lastFault, waitVars, faulted, selret, event >>

\* ------------------------------------------------------------ specification
Supervisor ==
    \/ InitLoopCheck
    \/ InitDestroyWorkers
    \/ InitControlOff
    \/ InitClose
    \/ InitOpen
    \/ InitControlOn
    \/ InitWorkers
    \/ SpawnWorker
    \/ InitDone
    \/ InitError
    \/ SleepBegin
    \/ SleepEnd
    \/ MainCheck
    \/ SelectError
    \/ SelectTimeout
    \/ SelectReady
    \/ GrabBuffer
    \/ FramePolicy
    \/ ReleaseBuffer
    \/ WriteCheck
    \/ EventCheck
    \/ FinalDestroyWorkers
    \/ FinalControlOff
    \/ FinalClose

Workers == \E i \in Indices : WorkerThread(i)

Next == Supervisor \/ Workers \/ Stop

Spec == Init /\ [][Next]_vars

\* The same program on the scenario's configuration and frames.
ScenarioSpec == InitScenario /\ [][Next]_vars

\* -------------------------------------------------- stream-controller harness
\* _capture_control on its own: any sequence of requests with any ioctl
\* outcomes, on an open session that starts in any state the flag and the
\* hardware can be in (idle, capturing, or still streaming after a failed
\* VIDIOC_STREAMOFF).
InitControl ==
    /\ stop = FALSE
    /\ retval = 0
    /\ pc = "control"
    /\ every_frame = U32(0)
    /\ min_frame_size = 0
    /\ script = << >>
    /\ opened = TRUE
    /\ n_buffers \in 1 .. MaxBuffers
    /\ capturing \in BOOLEAN
    /\ streaming \in BOOLEAN
    /\ capturing => streaming
    /\ InitQuiet

ControlCall ==
    /\ pc = "control"
    /\ ctlCalls < MaxCtlCalls
    /\ \E enable, ok \in BOOLEAN : capture_control(enable, ok)
    /\ ctlCalls' = ctlCalls + 1
    /\ UNCHANGED << stop, pc, retval, cfgVars, opened, n_buffers, closedTwice,
                    closes, poolVars, frameVars, histVars, reinit, lastFault,
                    waitVars, faulted, selret, event >>

ControlSpec == InitControl /\ [][ControlCall]_vars

\* The scheduler runs every thread that can take a step; the arrival of the
\* stop signal is not guaranteed.
FairSpec == Spec /\ WF_vars(Supervisor) /\ \A i \in Indices : WF_vars(WorkerThread(i))

\* ======================================================================
\* Properties
\* ======================================================================
Returning == pc \in {"final_destroy", "final_control", "final_close", "done"}

AllJoined == \A i \in Indices : threads[i] = "none"

TornDown == ~pool_workers /\ AllJoined /\ ~capturing /\ ~opened

FrameInFlight == pc \in {"policy", "release"}

\* C1 (as claimed): once stop is asserted capture_loop finishes at most the
\* readiness wait or retry sleep that is already in progress, so no retry
\* sleep is begun while stop is asserted; and when capture_loop has returned
\* every worker is joined, the pool is empty, the capturing flag is false and
\* the device is closed.
C1_StopReturnsPromptly ==
    /\ ~lateSleep
    /\ pc = "done" => TornDown

\* C2 (as claimed): while stop is not asserted, a dequeued source-changed
\* event leads to a new session (a fresh open / stream start / worker spawn
\* cycle) without the stop signal having to be asserted.
C2_SourceChangeReinits == reinit ~> (~reinit \/ stop)

\* C3: capture_loop leaves its outer loop only when stop is asserted, and every
\* break out of the mainloop leads back to _capture_init_loop, the
\* uninitialized state.
C3_ReturnsOnlyOnStop ==
    /\ Returning => stop
    /\ lastFault # "" => pc = "init_loop" /\ retval = -1

\* C3 witness: a fault ended a session while stop is not asserted and the
\* supervisor is back in _capture_init_loop.
C3_Witness == lastFault = "timeout" /\ pc = "init_loop" /\ ~stop /\ pool_workers

\* C4: every grabbed buffer is given to _capture_release_buffer exactly once,
\* with its own index, before the next readiness wait or the end of the
\* session: a buffer is held only between the grab and the release, and
\* outside that window as many releases as grabs have been made.
C4_GrabReleasePaired ==
    /\ FrameInFlight => /\ held = buf.index
                        /\ held \in 0 .. (n_buffers - 1)
                        /\ released = Len(sizes) - 1
    /\ ~FrameInFlight => /\ held = -1
                         /\ released = Len(sizes)

\* C4 witness: a session ended by write-readiness in the iteration that also
\* grabbed a frame, after a skipped and a forwarded frame; all were released.
C4_Witness ==
    /\ pc = "init_loop"
    /\ lastFault = "write"
    /\ ready.r
    /\ Len(sizes) >= 3
    /\ released = Len(sizes)
    /\ \E j, k \in 1 .. Len(fate) : fate[j] = "skip" /\ fate[k] = "fwd"

\* The k-th frame of a session is one the skip factor keeps: every frame for
\* N = 0, else the N-th, 2N-th, ... (none within reach for N >= 2^16).
KeepSlot(k) ==
    IF ~NonZero(every_frame) THEN TRUE
    ELSE every_frame.hi = 0 /\ k % every_frame.lo = 0

AllReachMin == \A k \in 1 .. Len(sizes) : sizes[k] >= min_frame_size

ForwardedFrames == {k \in 1 .. Len(fate) : fate[k] = "fwd"}

\* C5 (as claimed): for every skip factor N >= 1 and frames that all reach the
\* minimum size, the forwarded frames are exactly the N-th, 2N-th, ... of the
\* session (every frame for N = 0 and N = 1), floor(M/N) of M, and the cyclic
\* counter stays in 0..N-1.
C5_EveryNthForwarded ==
    AllReachMin =>
        /\ \A k \in 1 .. Len(fate) : (fate[k] = "fwd") <=> KeepSlot(k)
        /\ NonZero(every_frame) =>
              /\ Cardinality(ForwardedFrames) =
                    IF every_frame.hi = 0 THEN Len(fate) \div every_frame.lo ELSE 0
              /\ frames_count >= 0
              /\ every_frame.hi = 0 => frames_count < every_frame.lo

\* C6: a frame whose bytesused is below min_frame_size is never given to
\* jpeg_compress_buffer, is still released, and does not end the session; the
\* size check drops no frame whose bytesused equals (or exceeds) the minimum.
C6_SmallFramesDropped ==
    /\ \A k \in 1 .. Len(fate) : sizes[k] < min_frame_size => fate[k] # "fwd"
    /\ \A k \in 1 .. Len(fate) : fate[k] = "small" => sizes[k] < min_frame_size
    /\ (Len(fate) > 0 /\ fate[Len(fate)] = "small" /\ ~FrameInFlight) =>
          /\ released = Len(sizes)
          /\ held = -1
          /\ pc = "init_loop" => (stop \/ lastFault # "")

\* C6 witness: in one session a too-small frame was dropped and released, the
\* session went on, and a later frame of exactly the minimum size was forwarded.
C6_Witness ==
    /\ pc = "main_check"
    /\ released = Len(sizes)
    /\ \E j, k \in 1 .. Len(fate) :
          /\ j < k
          /\ fate[j] = "small"
          /\ fate[k] = "fwd"
          /\ sizes[k] = min_frame_size

\* What the scenario expects of its six frames.
ExpectedFates == << "skip", "skip", "small", "skip", "skip", "fwd" >>

\* C7: with skip = 3 and min_frame_size = 8000 the frames
\* [9000,9000,500,9000,9000,9000] are skipped, skipped, dropped as too small
\* (in the keep slot, the counter being reset), skipped, skipped, forwarded;
\* every one of them is released.
C7_Scenario ==
    /\ sizes = SubSeq(Scenario, 1, Len(sizes))
    /\ fate = SubSeq(ExpectedFates, 1, Len(fate))
    /\ ~FrameInFlight => released = Len(sizes)

\* C7 witness: all six frames of the scenario went through one session.
C7_Witness ==
    /\ sizes = Scenario
    /\ fate = ExpectedFates
    /\ ForwardedFrames = {6}
    /\ released = 6
    /\ pc = "main_check"

\* C8: once a select reports write-readiness the session ends in that same
\* iteration, whatever else was ready and however the frame fared: the
\* supervisor never gets past the write check to the event check, the stop
\* check or another select.
C8_WriteReadyEndsSession ==
    ready.w =>
        \/ pc \in {"grab", "policy", "release", "write_check"}
        \/ pc = "init_loop" /\ lastFault \in {"grab", "release", "write"}

\* C8 witness: read-, write- and error-readiness together; the frame was
\* forwarded and released, and the write check ended the session.
C8_Witness ==
    /\ pc = "init_loop"
    /\ lastFault = "write"
    /\ ready = [r |-> TRUE, w |-> TRUE, e |-> TRUE]
    /\ Len(fate) > 0
    /\ fate[Len(fate)] = "fwd"
    /\ released = Len(sizes)

BothMade == ctlPrev.made /\ ctlLast.made

\* C9 (as claimed): two consecutive _capture_control(dev, true) calls perform
\* only one VIDIOC_STREAMON between them, and a stop request with the flag
\* already false performs no VIDIOC_STREAMOFF and returns success.
C9_Original ==
    /\ (BothMade /\ ctlPrev.enable /\ ctlLast.enable) =>
          ~(ctlPrev.ioctl /\ ctlLast.ioctl)
    /\ (ctlLast.made /\ ~ctlLast.enable /\ ~ctlLast.was) =>
          (~ctlLast.ioctl /\ ctlLast.ret = 0)

\* C9 (amended): a request that equals the recorded flag performs no ioctl and
\* returns success; so after a _capture_control(dev, true) that succeeded, an
\* immediate second one performs no VIDIOC_STREAMON, and a stop request with
\* the flag already false performs no VIDIOC_STREAMOFF.  After a start that
\* failed the flag is still false and the second call issues the ioctl again.
C9_IdempotentOnFlag ==
    /\ (ctlLast.made /\ ctlLast.enable = ctlLast.was) =>
          (~ctlLast.ioctl /\ ctlLast.ret = 0 /\ capturing = ctlLast.was)
    /\ (BothMade /\ ctlPrev.enable /\ ctlLast.enable /\ ctlPrev.ret = 0) =>
          (~ctlLast.ioctl /\ ctlLast.ret = 0)
    /\ (BothMade /\ ctlPrev.enable /\ ctlLast.enable /\ ctlPrev.ret < 0) =>
          ctlLast.ioctl
    /\ (BothMade /\ ~ctlPrev.enable /\ ~ctlLast.enable) => ~ctlLast.ioctl

\* C9 witness: a start that issued VIDIOC_STREAMON and succeeded, followed at
\* once by a second start that issued nothing.
C9_Witness ==
    /\ BothMade
    /\ ctlPrev.enable /\ ctlPrev.ioctl /\ ctlPrev.ret = 0
    /\ ctlLast.enable /\ ~ctlLast.ioctl /\ ctlLast.ret = 0
    /\ capturing

\* C10 (as claimed): device_close is never invoked on a session that is
\* already closed or was never opened; each opened device is closed once; and
\* when capture_loop has returned the workers are torn down, the stream is
\* stopped and the device is closed.
C10_Original ==
    /\ ~closedTwice
    /\ closes <= 1
    /\ pc = "init_open" => ~opened
    /\ pc = "done" => TornDown

\* C10 (amended): each successful device_open is closed exactly once in
\* effect: device_open is never called on an open device, the one
\* device_close that finds the device open comes before the next device_open
\* and before capture_loop returns, and the further device_close calls (start
\* of _capture_init, its error exit, the final teardown) find it closed.  When
\* capture_loop has returned, stop is asserted, every worker is joined, the
\* pool is empty, the capturing flag is false and the device is closed, also
\* after a failed or interrupted initialization.
C10_ClosedOncePerOpen ==
    /\ closes <= 1
    /\ opened <=> (closes = 0 /\ n_buffers > 0)
    /\ pc = "init_open" => ~opened
    /\ pc = "done" => (stop /\ TornDown /\ ~streaming)

\* C10 witness: capture_loop has returned after a session was opened and then
\* an initialization attempt was cut short by a failed start; device_close had
\* also been invoked on a closed device.
C10_Witness ==
    /\ pc = "done"
    /\ closes = 1
    /\ closedTwice
    /\ ctlPrev.enable /\ ctlPrev.ret < 0
    /\ TornDown

\* C11 (as claimed): no failure inside _capture_init_workers (allocation of
\* the worker array, creation of a mutex, a condition variable or a thread)
\* aborts the process; the attempt fails with an error result and the
\* supervisor goes on to its retry sleep.
C11_InitFailureRetries == pc # "aborted"

\* The indices whose thread was created and is not yet joined.
LiveThreads == {i \in Indices : threads[i] # "none"}

C13_GenerationsDisjoint ==
    /\ [](/\ pc = "init_workers" => (~pool_workers /\ AllJoined)
          /\ ~pool_workers => AllJoined
          /\ Cardinality(LiveThreads) <= n_buffers)
    /\ [][(pc \in {"init_destroy", "final_destroy"} /\ ~pool_workers /\ pc' # pc) =>
             UNCHANGED << stop, retval, cfgVars, devVars, ctlVars, poolVars,
                          frameVars, histVars, reinit, lastFault, waitVars, faulted,
                          selret, event >>]_vars

\* C13 witness: a session ended by a source-changed event had its threads
\* joined and its pool freed, the device was opened again, and
\* _capture_init_workers is about to be called for the next generation.
C13_Witness ==
    /\ pc = "init_workers"
    /\ reinit
    /\ opened
    /\ capturing
    /\ ~pool_workers
    /\ AllJoined

\* C14 (as claimed): on every teardown path the stream is stopped before the
\* device is closed: device_close is never called, and the device never
\* closed, while the capturing flag is still true, and
\* _capture_control(dev, false) never has to issue VIDIOC_STREAMOFF on a
\* device that is already closed.
C14_TeardownOrder ==
    /\ pc \in {"init_close", "init_error", "final_close"} => ~capturing
    /\ ~opened => ~capturing
    /\ (pc \in {"init_control", "final_control"} /\ capturing) => opened

\* C15 (as claimed): every device_open that follows a fault (a break out of
\* the mainloop or a failed initialization attempt) comes after a retry sleep:
\* _capture_init never reaches device_open with a fault behind it and no
\* sleep(error_timeout) ended since.
C15_RetryDelayBeforeOpen == pc = "init_open" => ~faulted

\* C16: a select interrupted by a signal (< 0 with EINTR) never ends the
\* session and changes nothing: the supervisor goes from the wait straight to
\* the stop check of the mainloop, with no buffer acquired or released, the
\* skip counter, the pool, the device and the capturing flag as they were and
\* no fault recorded.  A select that timed out (0) or failed with another
\* errno always ends the session: the supervisor is back in
\* _capture_init_loop.
C16_InterruptedWaitContinues ==
    /\ [](/\ selret = "EINTR" =>
                /\ pc = "main_check"
                /\ ready = NoReady
                /\ held = -1
                /\ released = Len(sizes)
          /\ selret = "error" => (pc = "init_loop" /\ lastFault = "select")
          /\ selret = "timeout" => (pc = "init_loop" /\ lastFault = "timeout"))
    /\ [][selret' = "EINTR" /\ pc = "select" =>
             UNCHANGED << stop, retval, cfgVars, devVars, ctlVars, poolVars,
                          frameVars, histVars, reinit, lastFault, waitVars,
                          faulted, event >>]_vars

\* C16 witness: a select was interrupted in a session that has already grabbed
\* frames and counted skipped ones; the session is still running and about to
\* check stop and wait again.
C16_Witness ==
    /\ selret = "EINTR"
    /\ pc = "main_check"
    /\ ~stop
    /\ Len(sizes) >= 2
    /\ frames_count > 0
    /\ pool_workers /\ capturing /\ opened

\* C17 (as claimed): the readiness conditions of one iteration are handled in
\* the order error, write, read, and a fatal outcome ends the iteration before
\* the later steps: in an iteration with write-readiness set no buffer is
\* acquired (and so no frame forwarded), and an iteration that was ended by
\* write-readiness or by a reinit-required event acquired no buffer.
C17_FatalBeforeRead ==
    /\ ready.w => pc \notin {"grab", "policy", "release"}
    /\ (pc = "init_loop" /\ lastFault \in {"write", "event"}) => ~ready.r

\* C18: the buffer ownership handshake.  At every readiness wait, and whenever
\* _capture_grab_buffer is about to be called, no buffer is owned by the
\* application; at most one buffer is owned at any time, and only between its
\* acquire and its release; and the frame that jpeg_compress_buffer was called
\* with has an index below n_buffers and is the buffer currently owned.
C18_OwnershipHandshake ==
    /\ pc \in {"main_check", "select", "grab"} => held = -1
    /\ Len(sizes) - released \in {0, 1}
    /\ held # -1 <=> Len(sizes) - released = 1
    /\ held # -1 => /\ pc \in {"policy", "release"}
                    /\ held = buf.index
                    /\ held >= 0
                    /\ held < n_buffers
    /\ (pc = "release" /\ fate[Len(fate)] = "fwd") =>
          (held = buf.index /\ buf.index >= 0 /\ buf.index < n_buffers)

\* C18 witness: the second frame of a session was acquired in the last of at
\* least two buffers and forwarded to jpeg_compress_buffer; it is still owned
\* by the application, the first one was given back.
C18_Witness ==
    /\ pc = "release"
    /\ Len(sizes) = 2
    /\ released = 1
    /\ fate[2] = "fwd"
    /\ n_buffers >= 2
    /\ held = n_buffers - 1

\* C19: _capture_handle_event asks for a reinitialization only for a
\* successfully dequeued source-changed event, which ends the session.  A
\* failed VIDIOC_DQEVENT, an end-of-stream event and an event of any other
\* type are ignored: the supervisor goes on to the stop check of the mainloop
\* with the pool, the device, the capturing flag, the skip counter and
\* everything else as they were.
C19_OnlySourceChangeReinits ==
    /\ [](/\ event = "SOURCE_CHANGE" =>
                (pc = "init_loop" /\ lastFault = "event" /\ reinit /\ retval = -1)
          /\ lastFault = "event" => event = "SOURCE_CHANGE"
          /\ event \in {"undequeued", "EOS", "OTHER"} =>
                (pc = "main_check" /\ lastFault = ""))
    /\ [][(pc = "event_check" /\ event' \in {"undequeued", "EOS", "OTHER"}) =>
             UNCHANGED << stop, retval, cfgVars, devVars, ctlVars, poolVars,
                          frameVars, histVars, reinit, lastFault, waitVars,
                          faulted, selret >>]_vars

\* C19 witness: VIDIOC_DQEVENT failed in a running session that has counted a
\* skipped frame; the session goes on with its pool, stream and counter.
C19_Witness ==
    /\ event = "undequeued"
    /\ pc = "main_check"
    /\ ~stop
    /\ ~reinit
    /\ frames_count > 0
    /\ pool_workers /\ capturing /\ opened
    /\ LiveThreads = 0 .. (n_buffers - 1)

\* C20 (as claimed): when _capture_control has returned, the capturing flag
\* tells the hardware stream state: a flag that the call changed agrees with
\* the hardware (it is changed only when VIDIOC_STREAMON / VIDIOC_STREAMOFF
\* succeeded), a failed start returns -1 with the flag left false, and a stop
\* always returns 0, a failed one without the flag misreporting the stream.
C20_FlagMatchesHardware ==
    ctlLast.made =>
        /\ capturing # ctlLast.was => streaming = capturing
        /\ (ctlLast.enable /\ ctlLast.ret < 0) => (~capturing /\ ~ctlLast.was)
        /\ ~ctlLast.enable => ctlLast.ret = 0

====
